---- MODULE Spec2Model ----
(***************************************************************************)
(* Churn-prediction pipeline: the data transformation and storage stage    *)
(* (src/src/data_transformation_storage.py), the SQLite store it owns, the *)
(* files it reads and writes, and the two drivers that invoke it: the      *)
(* stage script and main_pipeline.main.                                    *)
(*                                                                         *)
(* Abstractions.  In the store and the drivers a DataFrame is its column   *)
(* set and the sequence of its rows; a row is its identity, its timestamps *)
(* and the set of its columns that hold no value.  Time is a counter of    *)
(* clock seconds: datetime.now() and file modification times are read from *)
(* it.  The content of an upstream CSV is drawn when the file is read.     *)
(* The arithmetic of the quality score, of feature engineering and of      *)
(* scaling is modelled on tables with integer cells, in exact arithmetic:  *)
(* a quotient is a pair of integers, a score is a number of hundredths.    *)
(*                                                                         *)
(* Specifications.  Spec: the stage run by its script.  MainSpec: the      *)
(* stage run by main_pipeline.main.  ClientSpec: the methods of the store  *)
(* called one by one.  ScoreSpec, TransformSpec and TrainingSpec: the pure  *)
(* functions applied to drawn arguments.  DagSpec: the orchestration DAG   *)
(* under the Airflow scheduler.  IngestSpec and IngestLiveSpec: the        *)
(* ingestion stage, statement by statement.                                *)
(***************************************************************************)
EXTENDS Integers, Sequences, FiniteSets, TLC

VARIABLES
    clock,              \* current wall-clock second
    files,              \* file system: path -> [mtime, data]
    tables,             \* tables that exist in data/processed/churn_data.db
    indexes,            \* indexes that exist in the database
    customer_features,  \* [pk, cols, rows] of table customer_features
    feature_metadata,   \* feature_name -> metadata row
    training_sets,      \* set_id -> lineage row
    caller,             \* which driver runs: "script" or "main"
    pc,                 \* next step of the running driver, "idle" when none runs
    df,                 \* the DataFrame handed from step to step
    latest_csv,         \* path chosen by run_transformation_pipeline_auto
    returned,           \* (set_id, output_path) returned by create_training_set
    outcome,            \* "none", "running", "success" or "failure" of the last execution
    error,              \* exception that ended the last execution, "" when none
    model_success,      \* value returned by run_model_training
    trace,              \* steps executed by the current (or last) execution, in order
    last_store_arg,     \* history: DataFrame passed to the latest store_transformed_data
    seen_columns,       \* history: column names stored by any store_transformed_data
    fn,                 \* method a caller applies on its own, "" before the call
    arg,                \* the argument of that call
    result,             \* what the call returned
    dag_run,            \* state of the active (or last) DAG run
    task_state,         \* task_id -> state of its task instance in that run
    try_number,         \* task_id -> attempts started in that run
    end_date,           \* task_id -> second at which its latest attempt ended
    dag_time,           \* seconds since the run was triggered
    completed,          \* task_id -> what subprocess.run gave its latest attempt
    ingest_pc,          \* next step of run_ingestion, "idle" before the call
    attempt,            \* loop variable of ingest_huggingface_data
    last_status,        \* status code of the latest response of the API
    requests,           \* history: requests sent to the API
    slept,              \* history: the time.sleep calls, in order
    csv_file,           \* what ingest_csv_data returned
    hf_file,            \* what ingest_huggingface_data returned
    ingestion           \* what run_ingestion returned

vars == <<clock, files, tables, indexes, customer_features, feature_metadata,
          training_sets, caller, pc, df, latest_csv, returned, outcome,
          error, model_success, trace, last_store_arg, seen_columns,
          fn, arg, result,
          dag_run, task_state, try_number, end_date, dag_time, completed,
          ingest_pc, attempt, last_status, requests, slept, csv_file, hf_file,
          ingestion>>

dbvars == <<tables, indexes, customer_features, feature_metadata, training_sets>>

histvars == <<last_store_arg, seen_columns>>

callvars == <<fn, arg, result>>

dagvars == <<dag_run, task_state, try_number, end_date, dag_time, completed>>

ingestvars == <<ingest_pc, attempt, last_status, requests, slept, csv_file, hf_file,
                ingestion>>

extvars == <<dagvars, ingestvars>>

(***************************************************************************)
(* Bounds of the model.                                                    *)
(***************************************************************************)
MaxClock == 1   \* clock seconds are 0..MaxClock

NoDf == [cols |-> {}, rows |-> <<>>]

NoPath == ""

(***************************************************************************)
(* Strings, as Python's str methods compute them.                          *)
(***************************************************************************)
StartsWith(s, prefix) ==
    Len(s) >= Len(prefix) /\ SubSeq(s, 1, Len(prefix)) = prefix

EndsWith(s, suffix) ==
    Len(s) >= Len(suffix) /\ SubSeq(s, Len(s) - Len(suffix) + 1, Len(s)) = suffix

Contains(s, sub) ==
    \E i \in 1..(Len(s) - Len(sub) + 1) : SubSeq(s, i, i + Len(sub) - 1) = sub

UpperCase == <<"A","B","C","D","E","F","G","H","I","J","K","L","M",
               "N","O","P","Q","R","S","T","U","V","W","X","Y","Z">>

LowerCase == <<"a","b","c","d","e","f","g","h","i","j","k","l","m",
               "n","o","p","q","r","s","t","u","v","w","x","y","z">>

LowerChar(c) ==
    IF \E i \in 1..Len(UpperCase) : UpperCase[i] = c
    THEN LowerCase[CHOOSE i \in 1..Len(UpperCase) : UpperCase[i] = c]
    ELSE c

RECURSIVE Lower(_)
Lower(s) ==
    IF Len(s) = 0 THEN ""
    ELSE LowerChar(SubSeq(s, 1, 1)) \o Lower(SubSeq(s, 2, Len(s)))

(***************************************************************************)
(* glob.glob(pattern) for a pattern with one "*": the wildcard matches any *)
(* run of characters that holds no path separator.                         *)
(***************************************************************************)
GlobMatch(pattern, path) ==
    LET star == CHOOSE i \in 1..Len(pattern) : SubSeq(pattern, i, i) = "*"
        prefix == SubSeq(pattern, 1, star - 1)
        suffix == SubSeq(pattern, star + 1, Len(pattern))
    IN  /\ Len(path) >= Len(prefix) + Len(suffix)
        /\ StartsWith(path, prefix)
        /\ EndsWith(path, suffix)
        /\ ~Contains(SubSeq(path, Len(prefix) + 1, Len(path) - Len(suffix)), "/")

glob(fs, pattern) == {p \in DOMAIN fs : GlobMatch(pattern, p)}

\* max(paths, key=os.path.getmtime): the paths of greatest modification time.
Newest(fs, paths) == {p \in paths : \A q \in paths : fs[q].mtime <= fs[p].mtime}

\* the creation times of the files found under data/raw and data/processed
CreationTimes == {0, 1}

\* max(files, key=os.path.getctime); glob orders the matches arbitrarily
LatestCreated(fs, paths) == {p \in paths : \A q \in paths : fs[q].ctime <= fs[p].ctime}

(***************************************************************************)
(* Inputs: the CSVs an upstream stage can leave for this one.              *)
(***************************************************************************)
FullSchema ==
    {"customerID", "tenure", "MonthlyCharges", "TotalCharges", "gender_encoded",
     "PhoneService", "Contract", "PaymentMethod", "Churn"}

DriftSchema ==
    {"customerID", "tenure", "MonthlyCharges", "TotalCharges",
     "Contract_encoded_scaled"}

NoTenureSchema == {"customerID", "MonthlyCharges", "TotalCharges", "Churn"}

\* a row of a validated input: its customerID, no cell without a value
Customer(id) == [customerID |-> id, nulls |-> {}]

\* the DataFrames pd.read_csv can return for a discovered file: two
\* customers, one customer twice, a drifted schema, a schema without tenure,
\* a header without rows
InputFrames ==
    {[cols |-> FullSchema, rows |-> <<Customer("c1"), Customer("c2")>>],
     [cols |-> FullSchema, rows |-> <<Customer("c2"), Customer("c2")>>],
     [cols |-> DriftSchema, rows |-> <<Customer("c1")>>],
     [cols |-> NoTenureSchema, rows |-> <<Customer("c1")>>],
     [cols |-> FullSchema, rows |-> <<>>]}

CleanedCsv == "data/cleaned/churn.csv"

PreparedCsv == "data/processed/cleaned_data.csv"

PreparedScaledCsv == "data/processed/cleaned_data_scaled.csv"

InputPaths == {CleanedCsv, PreparedCsv, PreparedScaledCsv}

\* data of a file this stage did not write: its content is drawn when read
Upstream == [cols |-> {}, rows |-> <<>>]

(***************************************************************************)
(* setup_database: schema of the store.                                    *)
(***************************************************************************)
TableNames == {"customer_features", "feature_metadata", "training_sets"}

DeclaredColumns ==
    {"customer_id", "tenure", "MonthlyCharges", "TotalCharges", "tenure_group",
     "charges_per_tenure", "total_to_monthly_ratio", "avg_monthly_charges",
     "gender_encoded", "SeniorCitizen", "Partner_encoded", "Dependents_encoded",
     "PhoneService_encoded", "MultipleLines_encoded", "InternetService_encoded",
     "OnlineSecurity_encoded", "OnlineBackup_encoded", "DeviceProtection_encoded",
     "TechSupport_encoded", "StreamingTV_encoded", "StreamingMovies_encoded",
     "Contract_encoded", "PaperlessBilling_encoded", "PaymentMethod_encoded",
     "Churn", "total_services", "service_density", "customer_value_segment",
     "tenure_stability", "high_risk_payment", "tenure_monthly_interaction",
     "tenure_total_interaction", "services_charges_interaction",
     "contract_payment_interaction", "created_timestamp", "updated_timestamp"}

\* CREATE TABLE customer_features (customer_id TEXT PRIMARY KEY, ...)
DeclaredCustomerFeatures == [pk |-> TRUE, cols |-> DeclaredColumns, rows |-> <<>>]

\* the CREATE INDEX statements, in the order setup_database issues them
IndexDefs ==
    << [name |-> "idx_customer_features_tenure", on |-> {"tenure"}],
       [name |-> "idx_customer_features_churn", on |-> {"Churn"}],
       [name |-> "idx_customer_features_charges", on |-> {"MonthlyCharges", "TotalCharges"}] >>

IndexNames == {IndexDefs[i].name : i \in 1..Len(IndexDefs)}

\* CREATE INDEX IF NOT EXISTS succeeds when the index exists or its columns do
IndexCreatable(existing, cf, i) ==
    IndexDefs[i].name \in existing \/ IndexDefs[i].on \subseteq cf.cols

\* the first CREATE INDEX statement that raises OperationalError, 0 when none
FirstFailingIndex(existing, cf) ==
    IF \A i \in 1..Len(IndexDefs) : IndexCreatable(existing, cf, i)
    THEN 0
    ELSE CHOOSE i \in 1..Len(IndexDefs) :
            /\ ~IndexCreatable(existing, cf, i)
            /\ \A j \in 1..(i - 1) : IndexCreatable(existing, cf, j)

(***************************************************************************)
(* Feature engineering and scaling, on the columns of the DataFrame.       *)
(***************************************************************************)
ServiceNames ==
    {"PhoneService", "MultipleLines", "InternetService", "OnlineSecurity",
     "OnlineBackup", "DeviceProtection", "TechSupport", "StreamingTV",
     "StreamingMovies"}

service_columns(cols) ==
    {col \in cols : Contains(Lower(col), "service") \/ col \in ServiceNames}

\* columns create_aggregated_features reads without testing for them, and
\* pd.cut, which raises ValueError on an empty column
aggregated_features_raises(d) ==
    \/ "TotalCharges" \notin d.cols
    \/ "tenure" \notin d.cols
    \/ Len(d.rows) = 0

create_aggregated_features(d) ==
    [d EXCEPT !.cols =
        @ \cup (IF service_columns(d.cols) # {}
                THEN {"total_services", "service_density"} ELSE {})
          \cup {"customer_value_segment", "tenure_stability"}
          \cup (IF "PaymentMethod" \in d.cols THEN {"high_risk_payment"} ELSE {})]

feature_interactions_raises(d) ==
    "tenure" \notin d.cols \/ "MonthlyCharges" \notin d.cols \/ "TotalCharges" \notin d.cols

create_feature_interactions(d) ==
    [d EXCEPT !.cols =
        @ \cup {"tenure_monthly_interaction", "tenure_total_interaction"}
          \cup (IF "total_services" \in d.cols
                THEN {"services_charges_interaction"} ELSE {})
          \cup (IF "Contract" \in d.cols /\ "PaymentMethod" \in d.cols
                THEN {"contract_payment_interaction"} ELSE {})]

\* scaling rewrites cell values only: columns and rows stay as they are
apply_feature_scaling(d) == d

(***************************************************************************)
(* Persistence: customer_features, feature_metadata, training_sets.        *)
(***************************************************************************)
TimestampColumns == {"created_timestamp", "updated_timestamp"}

\* df.rename(columns={'customerID': 'customer_id'}, errors='ignore')
rename_columns(cols) == {IF c = "customerID" THEN "customer_id" ELSE c : c \in cols}

\* a frame whose created_timestamp the call overwrites like updated_timestamp
stamped_frame_overwrite(d, now) ==
    [cols |-> rename_columns(d.cols) \cup TimestampColumns,
     rows |-> [i \in 1..Len(d.rows) |->
                 [customer_id |-> d.rows[i].customerID,
                  created_timestamp |-> now,
                  updated_timestamp |-> now,
                  nulls |-> rename_columns(d.rows[i].nulls) \ TimestampColumns]]]

\* the frame store_transformed_data hands to to_sql: renamed and stamped;
\* df.get('created_timestamp', timestamp) is the column when the frame has it
stamped_frame(d, now) ==
    [cols |-> rename_columns(d.cols) \cup TimestampColumns,
     rows |-> [i \in 1..Len(d.rows) |->
                 [customer_id |-> d.rows[i].customerID,
                  created_timestamp |->
                     IF "created_timestamp" \in d.cols
                     THEN d.rows[i].created_timestamp ELSE now,
                  updated_timestamp |-> now,
                  nulls |-> rename_columns(d.rows[i].nulls)
                               \ (IF "created_timestamp" \in d.cols
                                  THEN {"updated_timestamp"} ELSE TimestampColumns)]]]

\* if_exists='append': what to_sql would do without the replace
to_sql_append(table, frame) ==
    [pk |-> table.pk, cols |-> table.cols \cup frame.cols, rows |-> table.rows \o frame.rows]

\* df.to_sql(table_name, conn, if_exists='replace', index=False): the table is
\* dropped and recreated from the frame, without the declared PRIMARY KEY
to_sql(table, frame) ==
    [pk |-> FALSE, cols |-> frame.cols, rows |-> frame.rows]

feature_type(column) ==
    IF Contains(column, "_encoded") THEN "categorical" ELSE "numerical"

metadata_row(column, now) ==
    [feature_type |-> feature_type(column),
     description |-> "Feature: " \o column,
     transformation_applied |-> "StandardScaler/LabelEncoder",
     created_date |-> now]

\* a rewrite of the catalog from the current batch alone
update_feature_metadata_rewrite(meta, cols, now) ==
    [c \in cols \ TimestampColumns |-> metadata_row(c, now)]

\* INSERT OR IGNORE: an existing row wins
update_feature_metadata_ignore(meta, cols, now) ==
    [c \in DOMAIN meta \cup (cols \ TimestampColumns) |->
        IF c \in DOMAIN meta THEN meta[c] ELSE metadata_row(c, now)]

\* INSERT OR REPLACE for every column but the two timestamps
update_feature_metadata(meta, cols, now) ==
    [c \in DOMAIN meta \cup (cols \ TimestampColumns) |->
        IF c \in cols \ TimestampColumns THEN metadata_row(c, now) ELSE meta[c]]

TrainingSetName == "churn_prediction_v1"

\* datetime.now().strftime('%Y%m%d_%H%M%S') of clock second t
strftime(t) == "20260101_00000" \o ToString(t)

make_set_id(set_name, now) == set_name \o "_" \o strftime(now)

training_path(set_id) == "data/processed/training_sets/" \o set_id \o ".csv"

\* pd.read_sql("SELECT * FROM customer_features")
read_customer_features(table) == [cols |-> table.cols, rows |-> table.rows]

\* SELECT * whatever columns are named
read_sql_all(table, feature_columns) == [cols |-> table.cols, rows |-> table.rows]

\* pd.read_sql of SELECT {', '.join(feature_columns)} FROM customer_features,
\* of SELECT * when feature_columns is None or empty: of every row, the
\* selected columns
read_sql(table, feature_columns) ==
    LET selected == IF feature_columns = {} THEN table.cols ELSE feature_columns
    IN  [cols |-> selected,
         rows |-> [i \in 1..Len(table.rows) |->
                     [f \in (DOMAIN table.rows[i] \cap selected) \cup {"nulls"} |->
                         IF f = "nulls"
                         THEN table.rows[i].nulls \cap selected
                         ELSE table.rows[i][f]]]]

\* df.size
total_cells(d) == Len(d.rows) * Cardinality(d.cols)

\* f[1] + ... + f[n]
RECURSIVE SumTo(_, _)
SumTo(f, n) == IF n = 0 THEN 0 ELSE f[n] + SumTo(f, n - 1)

\* df.isnull().sum().sum()
missing_cells(d) ==
    SumTo([i \in 1..Len(d.rows) |-> Cardinality(d.rows[i].nulls \cap d.cols)],
          Len(d.rows))

\* the integer nearest to num / den, the even one of two equally near, as
\* round() decides for Python and numpy floats (num >= 0, den > 0)
RoundHalfEven(num, den) ==
    LET q == num \div den
        r == num % den
    IN  IF 2 * r > den \/ (2 * r = den /\ q % 2 = 1) THEN q + 1 ELSE q

\* a float with two decimals, as its number of hundredths; nan
Number(h) == [nan |-> FALSE, hundredths |-> h]

NaN == [nan |-> TRUE, hundredths |-> 0]

\* the completeness cut to two decimals instead of rounded
calculate_data_quality_score_truncated(total, missing) ==
    IF total = 0
    THEN NaN
    ELSE Number((10000 * (total - missing)) \div total)

\* lines 202-203 on total_cells and missing_cells.  missing_cells is a numpy
\* integer, so 0 / 0 is nan (with a RuntimeWarning) and not ZeroDivisionError.
\* (total - missing) / total * 100 is 100 - 100 * missing / total; the
\* rounding is done on the missing side, which keeps the products small.
calculate_data_quality_score(total, missing) ==
    IF total = 0
    THEN NaN
    ELSE Number(10000 - RoundHalfEven(10000 * missing, total))

\* data_quality_score = self.calculate_data_quality_score(df)
data_quality_score(d) == calculate_data_quality_score(total_cells(d), missing_cells(d))

lineage_row(set_name, now, frame) ==
    [set_name |-> set_name,
     creation_date |-> now,
     feature_count |-> Cardinality(frame.cols),
     record_count |-> Len(frame.rows),
     target_distribution |->
        IF "Churn" \in frame.cols THEN "value_counts" ELSE "No target",
     data_quality_score |-> data_quality_score(frame)]

\* INSERT OR REPLACE INTO training_sets: what a replacing insert would do
insert_training_set_replace(ts, set_id, row) ==
    [raised |-> FALSE,
     table |-> [k \in DOMAIN ts \cup {set_id} |-> IF k = set_id THEN row ELSE ts[k]]]

\* INSERT INTO training_sets: set_id is the PRIMARY KEY, a second row with the
\* same set_id raises sqlite3.IntegrityError and leaves the table as it was
insert_training_set(ts, set_id, row) ==
    IF set_id \in DOMAIN ts
    THEN [raised |-> TRUE, table |-> ts]
    ELSE [raised |-> FALSE,
          table |-> [k \in DOMAIN ts \cup {set_id} |-> IF k = set_id THEN row ELSE ts[k]]]

write_file(fs, path, now, data) ==
    [p \in DOMAIN fs \cup {path} |->
        IF p = path THEN [mtime |-> now, data |-> data] ELSE fs[p]]

remove_file(fs, path) == [p \in DOMAIN fs \ {path} |-> fs[p]]

(***************************************************************************)
(* run_transformation_pipeline_auto: input discovery.                      *)
(***************************************************************************)
patterns == <<"data/cleaned/*.csv", "data/processed/*.csv">>

\* for pattern in patterns: csv_files.extend(glob.glob(pattern))
csv_files(fs) == UNION {glob(fs, patterns[i]) : i \in 1..Len(patterns)}

\* the matches of the first pattern that has any
first_pattern_choices(fs) ==
    LET hit == {i \in 1..Len(patterns) : glob(fs, patterns[i]) # {}}
        first == CHOOSE i \in hit : \A j \in hit : i <= j
    IN  Newest(fs, glob(fs, patterns[first]))

\* max(csv_files, key=os.path.getmtime): the first path of greatest mtime in
\* the list, which holds the matches of patterns[1] before those of
\* patterns[2]; glob orders the matches of one pattern arbitrarily
latest_csv_choices(fs) ==
    LET newest == Newest(fs, csv_files(fs))
        hit == {i \in 1..Len(patterns) : glob(fs, patterns[i]) \cap newest # {}}
        first == CHOOSE i \in hit : \A j \in hit : i <= j
    IN  glob(fs, patterns[first]) \cap newest

(***************************************************************************)
(* Order of the steps.                                                     *)
(***************************************************************************)
\* a pipeline that creates the training set before it persists
pipeline_next_swapped(step) ==
    CASE step = "engineer" -> "interactions"
      [] step = "interactions" -> "scale"
      [] step = "scale" -> "create_training_set"
      [] step = "create_training_set" -> "persist"
      [] step = "persist" -> "return"

\* run_transformation_pipeline: the statement after each call
pipeline_next(step) ==
    CASE step = "engineer" -> "interactions"
      [] step = "interactions" -> "scale"
      [] step = "scale" -> "persist"
      [] step = "persist" -> "create_training_set"
      [] step = "create_training_set" -> "return"

(***************************************************************************)
(* Feature store (src/src/feature_store.py), as main_pipeline drives it.   *)
(***************************************************************************)
FeatureStoreCsv == "data/feature_store/churn_features.csv"

FeatureStoreSampleCsv == "data/feature_store/churn_features_sample.csv"

\* create_sample_features: one demonstration record
SampleFeatures(now) ==
    [cols |-> (DeclaredColumns \ {"customer_id", "high_risk_payment",
                                  "contract_payment_interaction"}) \cup {"customerID"},
     rows |-> <<[customer_id |-> "sample_001",
                 created_timestamp |-> now,
                 updated_timestamp |-> now,
                 nulls |-> {}]>>]

\* the least recently modified extract
oldest_training_choices(fs) ==
    LET extracts == glob(fs, "data/processed/training_sets/*.csv")
    IN  {p \in extracts : \A q \in extracts : fs[p].mtime <= fs[q].mtime}

\* find_latest_training_data
latest_training_choices(fs) ==
    Newest(fs, glob(fs, "data/processed/training_sets/*.csv"))

\* populate_from_dataframe: both timestamp columns are present afterwards
populated(data) == [data EXCEPT !.cols = @ \cup TimestampColumns]

(***************************************************************************)
(* Exceptions.  The stage script exits 1 on any exception (lines 254-259   *)
(* of data_transformation_storage.py); main_pipeline.main returns False on *)
(* any exception (lines 141-152).  Either way the execution ends.          *)
(***************************************************************************)
\* a handler that logs the exception and carries on with the next stage
on_exception_continue(who, err) ==
    IF who = "main"
    THEN [pc |-> "feature_store", outcome |-> "running"]
    ELSE [pc |-> "exited", outcome |-> "success"]

on_exception(who, err) == [pc |-> "exited", outcome |-> "failure"]

Raise(err) ==
    /\ pc' = on_exception(caller, err).pc
    /\ outcome' = on_exception(caller, err).outcome
    /\ error' = err
    /\ df' = NoDf

Step(name) == trace' = Append(trace, name)

(***************************************************************************)
(* The orchestration DAG (src/airflow/dags/churn_prediction_pipeline.py):  *)
(* its tasks and the arguments every task inherits.  Times are seconds.    *)
(***************************************************************************)
\* default_args['retries']
retries == 1

\* default_args['retry_delay']: timedelta(minutes=5)
retry_delay == 300

\* subprocess.run(..., timeout=300)
timeout == 300

\* task_a >> task_b >> ...: the tasks in the order of the statement
DagChain ==
    <<"data_ingestion", "raw_data_storage", "data_validation", "data_preparation",
      "data_transformation", "feature_store", "data_versioning", "model_building",
      "pipeline_success">>

DagTasks == {DagChain[i] : i \in 1..Len(DagChain)}

\* the tasks whose callable hands a script to run_python_script
ScriptTasks == DagTasks \ {"pipeline_success"}

\* a graph in which feature_store and data_versioning both follow
\* data_transformation
dag_edges_fan_out ==
    {<<DagChain[i], DagChain[i + 1]>> : i \in (1..(Len(DagChain) - 1)) \ {6}}
        \cup {<<"data_transformation", "data_versioning">>}

\* a >> b makes a an upstream task of b
dag_edges == {<<DagChain[i], DagChain[i + 1]>> : i \in 1..(Len(DagChain) - 1)}

upstream_task_ids(t) == {e[1] : e \in {d \in dag_edges : d[2] = t}}

downstream_task_ids(t) == {e[2] : e \in {d \in dag_edges : d[1] = t}}

\* what a stage's subprocess can do: its exit code and its running time
Completions == [returncode : {0, 1}, elapsed : {1, 301}]

NoCompletion == [returncode |-> 0, elapsed |-> 0]

\* run_python_script: "" when it returns, the exception when it raises
run_python_script(c) ==
    IF c.elapsed > timeout THEN "RuntimeError"       \* TimeoutExpired, line 68
    ELSE IF c.returncode = 0 THEN ""
    ELSE "RuntimeError"                               \* line 66

\* seconds the attempt lasted: the child is killed at the timeout
attempt_seconds(c) == IF c.elapsed > timeout THEN timeout ELSE c.elapsed

\* a task that may be retried twice
handle_failure_two_retries(n) == IF n <= retries + 1 THEN "up_for_retry" ELSE "failed"

\* the state of a task instance whose attempt number n raised
handle_failure(n) == IF n <= retries THEN "up_for_retry" ELSE "failed"

Finished == {"success", "failed", "upstream_failed"}

NoDagRun ==
    /\ dag_run = "none"
    /\ task_state = [t \in DagTasks |-> "none"]
    /\ try_number = [t \in DagTasks |-> 0]
    /\ end_date = [t \in DagTasks |-> 0]
    /\ dag_time = 0
    /\ completed = [t \in DagTasks |-> NoCompletion]

(***************************************************************************)
(* Ingestion (src/src/data_ingestion.py): the two downloads.               *)
(***************************************************************************)
\* max_retries = 3
max_retries == 3

\* backoff = 2
backoff == 2

\* last_status = None
None == 0

\* DataIngestionPipeline(raw_data_path="data/raw")
raw_data_path == "data/raw"

\* what requests.get can do: return a response or raise (a timeout, a
\* connection error)
Responses ==
    {[raised |-> FALSE, status_code |-> 200],
     [raised |-> FALSE, status_code |-> 503],
     [raised |-> TRUE, status_code |-> None]}

\* API responses kept by earlier runs
CachedPaths ==
    {raw_data_path \o "/huggingface_churn_20250824_000000.json",
     raw_data_path \o "/huggingface_churn_20250825_000000.json"}

CachedFileSystems ==
    UNION {[present -> [ctime : CreationTimes, data : {Upstream}]] :
              present \in SUBSET CachedPaths}

\* open(filepath, 'w') and the write
create_file(fs, path, now) ==
    [p \in DOMAIN fs \cup {path} |->
        IF p = path THEN [ctime |-> now, data |-> Upstream] ELSE fs[p]]

\* a loop that sleeps after every failed attempt
backoff_sleeps_always(n) == <<backoff ^ n>>

\* if attempt < max_retries: time.sleep(backoff ** attempt)
backoff_sleeps(n) == IF n < max_retries THEN <<backoff ^ n>> ELSE <<>>

\* the cached file the except branch returns, None when there is none
cached_choices(fs) ==
    LET hf_files == glob(fs, raw_data_path \o "/" \o "huggingface_churn_*.json")
    IN  IF hf_files # {} THEN LatestCreated(fs, hf_files) ELSE {NoPath}

NoIngestion ==
    /\ ingest_pc = "idle"
    /\ attempt = 0
    /\ last_status = None
    /\ requests = 0
    /\ slept = <<>>
    /\ csv_file = NoPath
    /\ hf_file = NoPath
    /\ ingestion = [status |-> "none"]

(***************************************************************************)
(* Initial state: no database, no file, nothing running.                   *)
(***************************************************************************)
NothingRun ==
    /\ clock = 0
    /\ files = <<>>
    /\ tables = {}
    /\ indexes = {}
    /\ customer_features = DeclaredCustomerFeatures
    /\ feature_metadata = <<>>
    /\ training_sets = <<>>
    /\ caller = "script"
    /\ pc = "idle"
    /\ df = NoDf
    /\ latest_csv = NoPath
    /\ returned = <<>>
    /\ outcome = "none"
    /\ error = ""
    /\ model_success = FALSE
    /\ trace = <<>>
    /\ last_store_arg = NoDf
    /\ seen_columns = {}
    /\ NoDagRun
    /\ NoIngestion

NoCall == [raised |-> "", value |-> 0]

Init ==
    /\ NothingRun
    /\ fn = ""
    /\ arg = NoDf
    /\ result = NoCall

(***************************************************************************)
(* Environment.                                                            *)
(***************************************************************************)
Tick ==
    /\ clock < MaxClock
    /\ clock' = clock + 1
    /\ UNCHANGED <<files, dbvars, caller, pc, df, latest_csv, returned, outcome, error,
                   model_success, trace, histvars, callvars, extvars>>

\* an upstream job leaves a cleaned CSV while no driver runs
EnvWriteCleaned ==
    /\ pc = "idle"
    /\ files' = write_file(files, CleanedCsv, clock, Upstream)
    /\ UNCHANGED <<clock, dbvars, caller, pc, df, latest_csv, returned, outcome, error,
                   model_success, trace, histvars, callvars, extvars>>

\* DataPreparationPipeline.run_pipeline: cleaned_data.csv, then
\* cleaned_data_scaled.csv, written at t1 <= t2
run_preparation(fs, t1, t2) ==
    write_file(write_file(fs, PreparedCsv, t1, Upstream), PreparedScaledCsv, t2, Upstream)

\* the preparation stage run on its own, while no driver runs
EnvPreparation ==
    /\ pc = "idle"
    /\ \E t2 \in {clock, clock + 1} :
          /\ t2 <= MaxClock
          /\ files' = run_preparation(files, clock, t2)
          /\ clock' = t2
    /\ UNCHANGED <<dbvars, caller, pc, df, latest_csv, returned, outcome, error,
                   model_success, trace, histvars, callvars, extvars>>

\* an input file is removed; after discovery a removal no longer matters
EnvRemoveInput ==
    /\ pc \in {"idle", "construct", "discover"}
    /\ \E p \in InputPaths \cap DOMAIN files : files' = remove_file(files, p)
    /\ UNCHANGED <<clock, dbvars, caller, pc, df, latest_csv, returned, outcome, error,
                   model_success, trace, histvars, callvars, extvars>>

(***************************************************************************)
(* The transformation stage.                                               *)
(***************************************************************************)
\* python src/data_transformation_storage.py
ScriptStart ==
    /\ pc = "idle"
    /\ caller' = "script"
    /\ pc' = "construct"
    /\ outcome' = "running"
    /\ UNCHANGED <<clock, files, dbvars, df, latest_csv, returned, error, model_success,
                   trace, histvars, callvars, extvars>>

\* DataTransformationStorage.__init__ and setup_database
Construct ==
    /\ pc = "construct"
    /\ Step("construct")
    /\ LET cf == IF "customer_features" \in tables
                 THEN customer_features ELSE DeclaredCustomerFeatures
           k == FirstFailingIndex(indexes, cf)
       IN  /\ tables' = TableNames
           /\ customer_features' = cf
           /\ IF k = 0
              THEN /\ indexes' = IndexNames
                   /\ pc' = "discover"
                   /\ UNCHANGED <<outcome, error, df>>
              ELSE /\ indexes' = indexes \cup {IndexDefs[j].name : j \in 1..(k - 1)}
                   /\ Raise("sqlite3.OperationalError")
    /\ UNCHANGED <<clock, files, feature_metadata, training_sets, caller,
                   latest_csv, returned, model_success, histvars, callvars, extvars>>

\* a discovery that empties the feature table before it looks for its input
DiscoverAfterCleanup ==
    /\ pc = "discover"
    /\ Step("discover")
    /\ customer_features' = [customer_features EXCEPT !.rows = <<>>]
    /\ IF csv_files(files) = {}
       THEN /\ Raise("FileNotFoundError")
            /\ UNCHANGED latest_csv
       ELSE \E p \in latest_csv_choices(files), frame \in InputFrames :
               /\ latest_csv' = p
               /\ df' = frame
               /\ pc' = "engineer"
               /\ UNCHANGED <<outcome, error>>
    /\ UNCHANGED <<clock, files, tables, indexes, feature_metadata, training_sets, caller,
                   returned, model_success, histvars, callvars, extvars>>

\* run_transformation_pipeline_auto up to pd.read_csv
Discover ==
    /\ pc = "discover"
    /\ Step("discover")
    /\ IF csv_files(files) = {}
       THEN /\ Raise("FileNotFoundError")
            /\ UNCHANGED latest_csv
       ELSE \E p \in latest_csv_choices(files), frame \in InputFrames :
               /\ latest_csv' = p
               /\ df' = frame
               /\ pc' = "engineer"
               /\ UNCHANGED <<outcome, error>>
    /\ UNCHANGED <<clock, files, dbvars, caller, returned, model_success, histvars, callvars, extvars>>

Engineer ==
    /\ pc = "engineer"
    /\ Step("engineer")
    /\ IF aggregated_features_raises(df)
       THEN Raise(IF Len(df.rows) = 0 /\ {"tenure", "TotalCharges"} \subseteq df.cols
                  THEN "ValueError" ELSE "KeyError")
       ELSE /\ df' = create_aggregated_features(df)
            /\ pc' = pipeline_next("engineer")
            /\ UNCHANGED <<outcome, error>>
    /\ UNCHANGED <<clock, files, dbvars, caller, latest_csv, returned, model_success, histvars, callvars, extvars>>

Interactions ==
    /\ pc = "interactions"
    /\ Step("interactions")
    /\ IF feature_interactions_raises(df)
       THEN Raise("KeyError")
       ELSE /\ df' = create_feature_interactions(df)
            /\ pc' = pipeline_next("interactions")
            /\ UNCHANGED <<outcome, error>>
    /\ UNCHANGED <<clock, files, dbvars, caller, latest_csv, returned, model_success, histvars, callvars, extvars>>

Scale ==
    /\ pc = "scale"
    /\ Step("scale")
    /\ df' = apply_feature_scaling(df)
    /\ pc' = pipeline_next("scale")
    /\ UNCHANGED <<clock, files, dbvars, caller, latest_csv, returned, outcome, error,
                   model_success, histvars, callvars, extvars>>

\* store_transformed_data, update_feature_metadata included
Persist ==
    /\ pc = "persist"
    /\ Step("persist")
    /\ LET frame == stamped_frame(df, clock)
       IN  /\ customer_features' = to_sql(customer_features, frame)
           /\ indexes' = {}
           /\ feature_metadata' = update_feature_metadata(feature_metadata, frame.cols, clock)
           /\ last_store_arg' = frame
           /\ seen_columns' = seen_columns \cup (frame.cols \ TimestampColumns)
    /\ pc' = pipeline_next("persist")
    /\ UNCHANGED <<clock, files, tables, training_sets, caller, df, latest_csv, returned,
                   outcome, error, model_success, callvars, extvars>>

\* create_training_set("churn_prediction_v1")
CreateTrainingSet ==
    /\ pc = "create_training_set"
    /\ Step("create_training_set")
    /\ LET frame == read_customer_features(customer_features)
           set_id == make_set_id(TrainingSetName, clock)
           ins == insert_training_set(training_sets, set_id,
                                      lineage_row(TrainingSetName, clock, frame))
       IN  /\ training_sets' = ins.table
           /\ IF ins.raised
              THEN /\ Raise("sqlite3.IntegrityError")
                   /\ UNCHANGED <<files, returned>>
              ELSE \E written \in BOOLEAN :
                      IF written
                      THEN /\ files' = write_file(files, training_path(set_id), clock, frame)
                           /\ returned' = <<set_id, training_path(set_id)>>
                           /\ pc' = pipeline_next("create_training_set")
                           /\ UNCHANGED <<outcome, error, df>>
                      ELSE /\ Raise("OSError")
                           /\ UNCHANGED <<files, returned>>
    /\ UNCHANGED <<clock, tables, indexes, customer_features, feature_metadata,
                   caller, latest_csv, model_success, histvars, callvars, extvars>>

\* run_transformation_pipeline returns; the script closes and exits 0, main
\* goes on with the rest of run_transformation_steps
Return ==
    /\ pc = "return"
    /\ IF caller = "script"
       THEN pc' = "exited" /\ outcome' = "success"
       ELSE pc' = "feature_store" /\ UNCHANGED outcome
    /\ df' = NoDf
    /\ UNCHANGED <<clock, files, dbvars, caller, latest_csv, returned, error,
                   model_success, trace, histvars, callvars, extvars>>

(***************************************************************************)
(* main_pipeline.main.                                                     *)
(***************************************************************************)
MainStart ==
    /\ pc = "idle"
    /\ caller' = "main"
    /\ pc' = "ingestion"
    /\ outcome' = "running"
    /\ UNCHANGED <<clock, files, dbvars, df, latest_csv, returned, error, model_success,
                   trace, histvars, callvars, extvars>>

\* run_data_ingestion_steps: the network and the raw store decide whether it raises
MainIngestion ==
    /\ pc = "ingestion"
    /\ Step("ingestion")
    /\ \E ok \in BOOLEAN :
          IF ok
          THEN pc' = "processing" /\ UNCHANGED <<outcome, error, df>>
          ELSE Raise("Exception")
    /\ UNCHANGED <<clock, files, dbvars, caller, latest_csv, returned, model_success, histvars, callvars, extvars>>

\* run_data_processing_steps: validation, then preparation, which writes
\* data/processed/cleaned_data.csv and cleaned_data_scaled.csv
MainProcessing ==
    /\ pc = "processing"
    /\ Step("processing")
    /\ \E res \in {"ok", "FileNotFoundError", "Exception"} :
          IF res = "ok"
          THEN \E t2 \in {clock, clock + 1} :
                  /\ t2 <= MaxClock
                  /\ files' = run_preparation(files, clock, t2)
                  /\ clock' = t2
                  /\ pc' = "construct"
                  /\ UNCHANGED <<outcome, error, df>>
          ELSE /\ Raise(res)
               /\ UNCHANGED <<files, clock>>
    /\ UNCHANGED <<dbvars, caller, latest_csv, returned, model_success, histvars, callvars, extvars>>

\* rest of run_transformation_steps: version_pipeline_step, then
\* SimpleChurnFeatureStore() and auto_populate_from_latest_data
MainFeatureStore ==
    /\ pc = "feature_store"
    /\ Step("feature_store")
    /\ \E made \in BOOLEAN :
          IF made
          THEN /\ IF latest_training_choices(files) = {}
                  THEN files' = write_file(write_file(files, FeatureStoreCsv, clock,
                                                      populated(SampleFeatures(clock))),
                                           FeatureStoreSampleCsv, clock,
                                           populated(SampleFeatures(clock)))
                  ELSE \E p \in latest_training_choices(files) :
                          files' = write_file(write_file(files, FeatureStoreCsv, clock,
                                                         populated(files[p].data)),
                                              FeatureStoreSampleCsv, clock,
                                              populated(files[p].data))
               /\ pc' = "final_versioning"
               /\ UNCHANGED <<outcome, error, df>>
          ELSE /\ Raise("OSError")       \* os.makedirs in the constructor
               /\ UNCHANGED files
    /\ UNCHANGED <<clock, dbvars, caller, latest_csv, returned, model_success, histvars,
                   callvars, extvars>>

\* Step 8: version_pipeline_step("Pipeline Complete", ...)
MainFinalVersioning ==
    /\ pc = "final_versioning"
    /\ Step("final_versioning")
    /\ pc' = "training"
    /\ UNCHANGED <<clock, files, dbvars, caller, df, latest_csv, returned, outcome, error,
                   model_success, histvars, callvars, extvars>>

\* a run_model_training without its except clause
run_model_training_uncaught(exc) ==
    IF exc = "" THEN [raised |-> "", value |-> TRUE] ELSE [raised |-> exc, value |-> FALSE]

\* run_model_training when train_model raises exc ("" when it returns):
\* FileNotFoundError is caught there, anything else reaches main's handlers
run_model_training(exc) ==
    IF exc = "" THEN [raised |-> "", value |-> TRUE]
    ELSE IF exc = "FileNotFoundError" THEN [raised |-> "", value |-> FALSE]
    ELSE [raised |-> exc, value |-> FALSE]

\* train_model returns or raises: no file to train on, no directory to write
\* the model to, a frame that cannot be fitted
MainTraining ==
    /\ pc = "training"
    /\ Step("training")
    /\ \E exc \in {"", "FileNotFoundError", "Exception"} :
          LET r == run_model_training(exc)
          IN  IF r.raised = ""
              THEN /\ model_success' = r.value
                   /\ pc' = "results"
                   /\ UNCHANGED <<outcome, error, df>>
              ELSE /\ Raise(r.raised)
                   /\ UNCHANGED model_success
    /\ UNCHANGED <<clock, files, dbvars, caller, latest_csv, returned, histvars, callvars, extvars>>

\* print_pipeline_results, feature_store.close(), return True
MainResults ==
    /\ pc = "results"
    /\ Step("results")
    /\ pc' = "exited"
    /\ outcome' = "success"
    /\ UNCHANGED <<clock, files, dbvars, caller, df, latest_csv, returned, error,
                   model_success, histvars, callvars, extvars>>

\* the process is gone: sys.exit in the script (lines 252-259) and in
\* main_pipeline (lines 191-194); nothing of it remains but the store and the files
Exit ==
    /\ pc = "exited"
    /\ pc' = "idle"
    /\ caller' = "script"
    /\ outcome' = "none"
    /\ error' = ""
    /\ trace' = <<>>
    /\ latest_csv' = NoPath
    /\ returned' = <<>>
    /\ model_success' = FALSE
    /\ UNCHANGED <<clock, files, dbvars, df, histvars, callvars, extvars>>

\* the stage run by its script, with the environment around it
Next ==
    \/ Tick
    \/ EnvWriteCleaned
    \/ EnvPreparation
    \/ EnvRemoveInput
    \/ ScriptStart
    \/ Construct
    \/ Discover
    \/ Engineer
    \/ Interactions
    \/ Scale
    \/ Persist
    \/ CreateTrainingSet
    \/ Return
    \/ Exit

Spec == Init /\ [][Next]_vars

\* main_pipeline.main and the stage script, each run any number of times; the
\* inputs are those the pipeline's own preparation step writes
MainNext ==
    \/ Tick
    \/ EnvRemoveInput
    \/ Construct
    \/ Discover
    \/ Engineer
    \/ Interactions
    \/ Scale
    \/ Persist
    \/ CreateTrainingSet
    \/ Return
    \/ ScriptStart
    \/ MainStart
    \/ MainIngestion
    \/ MainProcessing
    \/ MainFeatureStore
    \/ MainFinalVersioning
    \/ MainTraining
    \/ MainResults
    \/ Exit

MainSpec == Init /\ [][MainNext]_vars

stagevars == <<clock, files, dbvars, caller, pc, df, latest_csv, returned, outcome,
               error, model_success, trace, histvars>>

Returned(v) == [raised |-> "", value |-> v]

Raised(err) == [raised |-> err, value |-> 0]

(***************************************************************************)
(* The methods of the store called one by one by a client that holds a     *)
(* DataTransformationStorage object: a notebook, a test.                   *)
(***************************************************************************)
MaxCalls == 3   \* calls a client makes after constructing the object

\* frames a client stores: two complete customers; one customer that
\* carries a created_timestamp and lacks a TotalCharges value
ClientFrames ==
    {[cols |-> FullSchema, rows |-> <<Customer("c1"), Customer("c2")>>],
     [cols |-> FullSchema \cup {"created_timestamp"},
      rows |-> <<[customerID |-> "c3", created_timestamp |-> -1,
                  nulls |-> {"TotalCharges"}]>>]}

\* arguments of create_training_set; no feature_columns is the empty set
ClientCalls ==
    {[set_name |-> TrainingSetName, feature_columns |-> {}],
     [set_name |-> "tenure_only", feature_columns |-> {"customer_id", "tenure"}],
     [set_name |-> "tenure_only", feature_columns |-> {"no_such_column"}]}

\* transformer = DataTransformationStorage()
ClientConstruct ==
    /\ fn = ""
    /\ tables' = TableNames
    /\ customer_features' = IF "customer_features" \in tables
                            THEN customer_features ELSE DeclaredCustomerFeatures
    /\ indexes' = IndexNames
    /\ fn' = "__init__"
    /\ UNCHANGED <<clock, files, feature_metadata, training_sets, caller, pc, df,
                   latest_csv, returned, outcome, error, model_success, trace,
                   histvars, arg, result, extvars>>

\* transformer.store_transformed_data(frame)
ClientStore ==
    /\ fn # ""
    /\ Len(trace) < MaxCalls
    /\ Step("store_transformed_data")
    /\ \E frame \in ClientFrames :
          LET stored == stamped_frame(frame, clock)
          IN  /\ customer_features' = to_sql(customer_features, stored)
              /\ indexes' = {}
              /\ feature_metadata' =
                    update_feature_metadata(feature_metadata, stored.cols, clock)
              /\ last_store_arg' = stored
              /\ seen_columns' = seen_columns \cup (stored.cols \ TimestampColumns)
              /\ fn' = "store_transformed_data"
              /\ arg' = frame
              /\ result' = NoCall
    /\ UNCHANGED <<clock, files, tables, training_sets, caller, pc, df, latest_csv,
                   returned, outcome, error, model_success, extvars>>

\* transformer.create_training_set(set_name, feature_columns)
ClientCreateTrainingSet ==
    /\ fn # ""
    /\ Len(trace) < MaxCalls
    /\ Step("create_training_set")
    /\ \E call \in ClientCalls :
          /\ fn' = "create_training_set"
          /\ arg' = call
          /\ IF ~(call.feature_columns \subseteq customer_features.cols)
             THEN /\ result' = Raised("DatabaseError")
                  /\ UNCHANGED <<training_sets, files>>
             ELSE LET frame == read_sql(customer_features, call.feature_columns)
                      set_id == make_set_id(call.set_name, clock)
                      ins == insert_training_set(training_sets, set_id,
                                                 lineage_row(call.set_name, clock, frame))
                  IN  /\ training_sets' = ins.table
                      /\ IF ins.raised
                         THEN /\ result' = Raised("sqlite3.IntegrityError")
                              /\ UNCHANGED files
                         ELSE \E written \in BOOLEAN :
                                 IF written
                                 THEN /\ files' = write_file(files, training_path(set_id),
                                                             clock, frame)
                                      /\ result' = Returned(<<set_id, training_path(set_id)>>)
                                 ELSE /\ result' = Raised("OSError")
                                      /\ UNCHANGED files
    /\ UNCHANGED <<clock, tables, indexes, customer_features, feature_metadata, caller,
                   pc, df, latest_csv, returned, outcome, error, model_success, histvars, extvars>>

ClientNext ==
    \/ Tick
    \/ ClientConstruct
    \/ ClientStore
    \/ ClientCreateTrainingSet

ClientSpec == Init /\ [][ClientNext]_vars

(***************************************************************************)
(* calculate_data_quality_score applied to tables of drawn shapes.         *)
(***************************************************************************)
MaxMissing == 4   \* a drawn table has 0..MaxMissing cells without a value

RowCounts == {0, 1, 2, 3, 16, 7043}

ColumnCounts == {0, 1, 2, 3, 21}

\* what a table is to the score, and whether it holds a row twice
TableShapes ==
    {t \in [rows : RowCounts, cols : ColumnCounts, missing : 0..MaxMissing,
            duplicates : BOOLEAN] : t.missing <= t.rows * t.cols}

ScoreInit ==
    /\ NothingRun
    /\ fn = ""
    /\ arg \in TableShapes
    /\ result = NoCall

ApplyQualityScore ==
    /\ fn = ""
    /\ fn' = "calculate_data_quality_score"
    /\ result' = Returned(calculate_data_quality_score(arg.rows * arg.cols, arg.missing))
    /\ UNCHANGED <<arg, stagevars, extvars>>

ScoreNext == ApplyQualityScore

ScoreSpec == ScoreInit /\ [][ScoreNext]_vars

(***************************************************************************)
(* Feature engineering and scaling on cell values: tables with integer     *)
(* cells, a string identity column, no cell without a value.               *)
(***************************************************************************)
MaxRows == 3   \* a drawn table has 0..MaxRows rows

MaxRuns == 2   \* methods applied to one drawn table

\* the rows tables are drawn from; InternetService_encoded is a label code
\* (0 DSL, 1 fiber optic, 2 none)
ValueRows ==
    {[customerID |-> "c1", tenure |-> 5, MonthlyCharges |-> 70, TotalCharges |-> 350,
      PhoneService |-> 1, InternetService_encoded |-> 1, SeniorCitizen |-> 0,
      PaymentMethod |-> 2, Churn |-> 1],
     [customerID |-> "c2", tenure |-> 0, MonthlyCharges |-> 20, TotalCharges |-> 0,
      PhoneService |-> 0, InternetService_encoded |-> 2, SeniorCitizen |-> 1,
      PaymentMethod |-> 0, Churn |-> 0],
     [customerID |-> "c3", tenure |-> 13, MonthlyCharges |-> 20, TotalCharges |-> 100,
      PhoneService |-> 1, InternetService_encoded |-> 0, SeniorCitizen |-> 0,
      PaymentMethod |-> 1, Churn |-> 0],
     [customerID |-> "c4", tenure |-> 40, MonthlyCharges |-> 70, TotalCharges |-> 300,
      PhoneService |-> 1, InternetService_encoded |-> 1, SeniorCitizen |-> 1,
      PaymentMethod |-> 2, Churn |-> 1],
     [customerID |-> "c5", tenure |-> 61, MonthlyCharges |-> 90, TotalCharges |-> 400,
      PhoneService |-> 0, InternetService_encoded |-> 0, SeniorCitizen |-> 0,
      PaymentMethod |-> 3, Churn |-> 0]}

ServiceSchema ==
    {"customerID", "tenure", "MonthlyCharges", "TotalCharges", "PhoneService",
     "InternetService_encoded", "SeniorCitizen", "PaymentMethod", "Churn"}

PlainSchema == {"customerID", "tenure", "MonthlyCharges", "TotalCharges", "Churn"}

\* the tables pd.read_csv can return over the two schemas: dtype object for
\* the identity column, int64 for the others
ValueFrames ==
    {[cols |-> schema,
      dtypes |-> [c \in schema |-> IF c = "customerID" THEN "object" ELSE "int64"],
      rows |-> [i \in DOMAIN rs |-> [c \in schema |-> rs[i][c]]]] :
        schema \in {ServiceSchema, PlainSchema},
        rs \in UNION {[1..k -> ValueRows] : k \in 0..MaxRows}}

\* the cells of column c, top to bottom
Column(d, c) == [i \in 1..Len(d.rows) |-> d.rows[i][c]]

column_min(col) == CHOOSE x \in {col[i] : i \in DOMAIN col} : \A i \in DOMAIN col : x <= col[i]

column_max(col) == CHOOSE x \in {col[i] : i \in DOMAIN col} : \A i \in DOMAIN col : col[i] <= x

\* the quotient num / den, kept exact
Quotient(n, d) == [num |-> n, den |-> d]

\* df[service_columns].sum(axis=1) for one row
RECURSIVE row_sum(_, _)
row_sum(row, columns) ==
    IF columns = {}
    THEN 0
    ELSE LET c == CHOOSE c \in columns : TRUE
         IN  row[c] + row_sum(row, columns \ {c})

\* bins with fixed edges 100, 200, 300 whatever the batch holds
cut_fixed_edges(x, mn, mx) ==
    IF x <= 100 THEN 0 ELSE IF x <= 200 THEN 1 ELSE IF x <= 300 THEN 2 ELSE 3

\* pd.cut(column, bins=4, labels=[0, 1, 2, 3]) for the value x of a column of
\* minimum mn and maximum mx: four bins of width (mx - mn) / 4, closed on the
\* right, the lowest edge moved below mn.  When mn = mx pandas widens the
\* range by 0.1% to either side and x is the edge that closes bin 1.
cut(x, mn, mx) ==
    IF mn = mx
    THEN 1
    ELSE IF x = mn
         THEN 0
         ELSE CHOOSE b \in 0..3 :
                 /\ b * (mx - mn) < 4 * (x - mn)
                 /\ 4 * (x - mn) <= (b + 1) * (mx - mn)

tenure_stability(tenure) ==
    IF tenure <= 12 THEN 0 ELSE IF tenure <= 36 THEN 1 ELSE IF tenure <= 60 THEN 2 ELSE 3

high_risk_payment(PaymentMethod) == IF PaymentMethod = 2 THEN 1 ELSE 0

\* create_aggregated_features on cell values, for a table it does not raise on
df_agg(d) ==
    LET service == service_columns(d.cols)
        columns == create_aggregated_features(d).cols
        TotalCharges == Column(d, "TotalCharges")
        total_services(i) == row_sum(d.rows[i], service)
    IN  [cols |-> columns,
         dtypes |-> [c \in columns |->
                       IF c = "service_density" /\ service # {} THEN "float64"
                       ELSE IF c \in d.cols THEN d.dtypes[c] ELSE "int64"],
         rows |-> [i \in 1..Len(d.rows) |-> [c \in columns |->
            IF c = "total_services" /\ service # {}
            THEN total_services(i)
            ELSE IF c = "service_density" /\ service # {}
            THEN Quotient(total_services(i), d.rows[i]["tenure"] + 1)
            ELSE IF c = "customer_value_segment"
            THEN cut(TotalCharges[i], column_min(TotalCharges), column_max(TotalCharges))
            ELSE IF c = "tenure_stability"
            THEN tenure_stability(d.rows[i]["tenure"])
            ELSE IF c = "high_risk_payment" /\ "PaymentMethod" \in d.cols
            THEN high_risk_payment(d.rows[i]["PaymentMethod"])
            ELSE d.rows[i][c]]]]

\* df.select_dtypes(include=[np.number]).columns
numerical_features(d) == {c \in d.cols : d.dtypes[c] \in {"int64", "float64"}}

\* every numerical column, the encoded and the label columns included
features_to_scale_all(d) == numerical_features(d)

features_to_scale(d) ==
    {col \in numerical_features(d) :
        /\ ~EndsWith(col, "_encoded")
        /\ col \notin {"Churn", "tenure_group", "customer_value_segment"}}

standard_features(d) ==
    {col \in {"tenure", "MonthlyCharges", "TotalCharges"} : col \in features_to_scale(d)}

minmax_features(d) == {col \in features_to_scale(d) : col \notin standard_features(d)}

\* a cell of the scaled table: the value is num / den for scaler "none" and
\* "minmax", num / sqrt(den) for scaler "standard"
Cell(scaler, n, d) == [scaler |-> scaler, num |-> n, den |-> d]

\* StandardScaler.fit_transform: (x - mean) / std with the population
\* deviation, n * x - sum over the root of n * sum of squares - sum^2; a
\* column of zero variance is only centred
standard_scaled(col, i) ==
    LET n == Len(col)
        sum == SumTo(col, n)
        squares == SumTo([j \in 1..n |-> col[j] * col[j]], n)
        variance == n * squares - sum * sum
    IN  Cell("standard", n * col[i] - sum, IF variance = 0 THEN 1 ELSE variance)

\* MinMaxScaler.fit_transform: (x - min) / (max - min); a column of zero
\* range is only shifted
minmax_scaled(col, i) ==
    LET mn == column_min(col)
        mx == column_max(col)
    IN  Cell("minmax", col[i] - mn, IF mx = mn THEN 1 ELSE mx - mn)

\* both scalers reject a table without rows
feature_scaling_raises(d) == Len(d.rows) = 0 /\ features_to_scale(d) # {}

\* apply_feature_scaling on cell values, for a table it does not raise on
df_scaled(d) ==
    [d EXCEPT !.rows = [i \in 1..Len(d.rows) |-> [c \in d.cols |->
        IF c \in standard_features(d)
        THEN standard_scaled(Column(d, c), i)
        ELSE IF c \in minmax_features(d)
        THEN minmax_scaled(Column(d, c), i)
        ELSE Cell("none", d.rows[i][c], 1)]]]

TransformInit ==
    /\ NothingRun
    /\ fn = ""
    /\ arg \in ValueFrames
    /\ result = NoCall

\* transformer.create_aggregated_features(arg)
ApplyAggregated ==
    /\ Len(trace) < MaxRuns
    /\ Step("create_aggregated_features")
    /\ fn' = "create_aggregated_features"
    /\ result' = IF Len(arg.rows) = 0
                 THEN Raised("ValueError")
                 ELSE IF aggregated_features_raises(arg)
                 THEN Raised("KeyError")
                 ELSE Returned(df_agg(arg))
    /\ UNCHANGED <<arg, clock, files, dbvars, caller, pc, df, latest_csv, returned,
                   outcome, error, model_success, histvars, extvars>>

\* transformer.apply_feature_scaling(arg)
ApplyScaling ==
    /\ Len(trace) < MaxRuns
    /\ Step("apply_feature_scaling")
    /\ fn' = "apply_feature_scaling"
    /\ result' = IF feature_scaling_raises(arg)
                 THEN Raised("ValueError")
                 ELSE Returned(df_scaled(arg))
    /\ UNCHANGED <<arg, clock, files, dbvars, caller, pc, df, latest_csv, returned,
                   outcome, error, model_success, histvars, extvars>>

TransformNext ==
    \/ ApplyAggregated
    \/ ApplyScaling

TransformSpec == TransformInit /\ [][TransformNext]_vars


(***************************************************************************)
(* Model training's choice of input (src/src/build_model.py), applied to   *)
(* drawn file systems.  A file here carries its os.path.getctime.          *)
(***************************************************************************)
\* self.features_path: os.environ.get('FEATURES_PATH', 'data/raw')
features_path == "data/raw"

\* the files a training run can find under data/: two extracts of the
\* transformation stage, a note beside them, the prepared CSV, the feature
\* export, a raw download and the raw API response
TrainingPaths ==
    {training_path(make_set_id(TrainingSetName, 0)),
     training_path(make_set_id(TrainingSetName, 1)),
     "data/processed/training_sets/README.txt",
     PreparedCsv,
     "data/processed/customer_features.csv",
     features_path \o "/customer_churn_20250824.csv",
     features_path \o "/huggingface_churn_20250824.json"}

TrainingFileSystems ==
    UNION {[present -> [ctime : CreationTimes, data : {Upstream}]] :
              present \in SUBSET TrainingPaths}

\* a search that tries data/processed before data/processed/training_sets
get_latest_training_data_processed_first(fs) ==
    LET training == glob(fs, "data/processed/training_sets" \o "/" \o "*.csv")
        processed == glob(fs, "data/processed" \o "/" \o "cleaned_data*.csv")
        raw == glob(fs, features_path \o "/" \o "customer_churn_*.csv")
    IN  IF processed # {} THEN LatestCreated(fs, processed)
        ELSE IF training # {} THEN LatestCreated(fs, training)
        ELSE LatestCreated(fs, raw)

\* get_latest_training_data: the files it can return, none when it raises
get_latest_training_data(fs) ==
    LET training == glob(fs, "data/processed/training_sets" \o "/" \o "*.csv")
        processed == glob(fs, "data/processed" \o "/" \o "cleaned_data*.csv")
        raw == glob(fs, features_path \o "/" \o "customer_churn_*.csv")
    IN  IF training # {} THEN LatestCreated(fs, training)
        ELSE IF processed # {} THEN LatestCreated(fs, processed)
        ELSE LatestCreated(fs, raw)

TrainingInit ==
    /\ NothingRun
    /\ fn = ""
    /\ arg \in TrainingFileSystems
    /\ result = NoCall

ApplyGetLatestTrainingData ==
    /\ fn = ""
    /\ fn' = "get_latest_training_data"
    /\ IF get_latest_training_data(arg) = {}
       THEN result' = Raised("FileNotFoundError")
       ELSE \E latest_file \in get_latest_training_data(arg) :
               result' = Returned(latest_file)
    /\ UNCHANGED <<arg, stagevars, extvars>>

TrainingNext == ApplyGetLatestTrainingData

TrainingSpec == TrainingInit /\ [][TrainingNext]_vars


(***************************************************************************)
(* The DAG run by the Airflow scheduler.  max_active_runs=1: a run is      *)
(* created only when none is active.  A task instance is started when all  *)
(* its upstream tasks have succeeded (trigger rule all_success), or when   *)
(* it is up for retry and retry_delay has passed since its attempt ended.  *)
(***************************************************************************)
TriggerDagRun ==
    /\ dag_run # "running"
    /\ dag_run' = "running"
    /\ task_state' = [t \in DagTasks |-> "none"]
    /\ try_number' = [t \in DagTasks |-> 0]
    /\ end_date' = [t \in DagTasks |-> 0]
    /\ dag_time' = 0
    /\ completed' = [t \in DagTasks |-> NoCompletion]
    /\ UNCHANGED <<stagevars, callvars,
                   ingestvars>>

StartTask(t) ==
    /\ dag_run = "running"
    /\ \/ /\ task_state[t] = "none"
          /\ \A u \in upstream_task_ids(t) : task_state[u] = "success"
          /\ UNCHANGED dag_time
       \/ /\ task_state[t] = "up_for_retry"
          /\ dag_time' = IF dag_time < end_date[t] + retry_delay
                         THEN end_date[t] + retry_delay
                         ELSE dag_time
    /\ task_state' = [task_state EXCEPT ![t] = "running"]
    /\ try_number' = [try_number EXCEPT ![t] = @ + 1]
    /\ UNCHANGED <<dag_run, end_date, completed, stagevars, callvars,
                   ingestvars>>

\* the callable of the task returns or raises
FinishTask(t) ==
    /\ dag_run = "running"
    /\ task_state[t] = "running"
    /\ \E c \in Completions :
          /\ IF t \in ScriptTasks
             THEN /\ completed' = [completed EXCEPT ![t] = c]
                  /\ dag_time' = dag_time + attempt_seconds(c)
                  /\ task_state' = [task_state EXCEPT ![t] =
                                       IF run_python_script(c) = "" THEN "success"
                                       ELSE handle_failure(try_number[t])]
             ELSE /\ c = [returncode |-> 0, elapsed |-> 1]
                  /\ dag_time' = dag_time + c.elapsed
                  /\ task_state' = [task_state EXCEPT ![t] = "success"]
                  /\ UNCHANGED completed
    /\ end_date' = [end_date EXCEPT ![t] = dag_time']
    /\ UNCHANGED <<dag_run, try_number, stagevars, callvars,
                   ingestvars>>

\* an upstream task failed: the task is never started in this run
SkipTask(t) ==
    /\ dag_run = "running"
    /\ task_state[t] = "none"
    /\ \E u \in upstream_task_ids(t) : task_state[u] \in {"failed", "upstream_failed"}
    /\ task_state' = [task_state EXCEPT ![t] = "upstream_failed"]
    /\ UNCHANGED <<dag_run, try_number, end_date, dag_time, completed, stagevars, callvars,
                   ingestvars>>

\* every task instance is finished: the run takes the state of its leaves
FinishDagRun ==
    /\ dag_run = "running"
    /\ \A t \in DagTasks : task_state[t] \in Finished
    /\ dag_run' = IF \A t \in DagTasks :
                        downstream_task_ids(t) = {} => task_state[t] = "success"
                  THEN "success"
                  ELSE "failed"
    /\ UNCHANGED <<task_state, try_number, end_date, dag_time, completed, stagevars, callvars,
                   ingestvars>>

DagNext ==
    \/ TriggerDagRun
    \/ \E t \in DagTasks : StartTask(t)
    \/ \E t \in DagTasks : FinishTask(t)
    \/ \E t \in DagTasks : SkipTask(t)
    \/ FinishDagRun

DagSpec == Init /\ [][DagNext]_vars


(***************************************************************************)
(* run_ingestion, statement by statement, on a raw directory that holds    *)
(* the responses cached by earlier runs.                                   *)
(***************************************************************************)
IngestInit ==
    /\ clock = 0
    /\ files \in CachedFileSystems
    /\ tables = {}
    /\ indexes = {}
    /\ customer_features = DeclaredCustomerFeatures
    /\ feature_metadata = <<>>
    /\ training_sets = <<>>
    /\ caller = "script"
    /\ pc = "idle"
    /\ df = NoDf
    /\ latest_csv = NoPath
    /\ returned = <<>>
    /\ outcome = "none"
    /\ error = ""
    /\ model_success = FALSE
    /\ trace = <<>>
    /\ last_store_arg = NoDf
    /\ seen_columns = {}
    /\ NoDagRun
    /\ NoIngestion
    /\ fn = ""
    /\ arg = NoDf
    /\ result = NoCall

ingestenv == <<clock, dbvars, caller, pc, df, latest_csv, returned, outcome, error,
               model_success, trace, histvars, callvars, dagvars>>

\* pipeline.run_ingestion()
IngestStart ==
    /\ ingest_pc = "idle"
    /\ ingest_pc' = "csv"
    /\ UNCHANGED <<files, attempt, last_status, requests, slept, csv_file, hf_file,
                   ingestion, ingestenv>>

\* ingest_csv_data: any failure is raised through run_ingestion
IngestCsv ==
    /\ ingest_pc = "csv"
    /\ \E response \in Responses :
          IF ~response.raised /\ response.status_code = 200
          THEN LET filepath == raw_data_path \o "/customer_churn_" \o strftime(clock) \o ".csv"
               IN  /\ files' = create_file(files, filepath, clock)
                   /\ csv_file' = filepath
                   /\ ingest_pc' = "request"
                   /\ attempt' = 1
                   /\ UNCHANGED ingestion
          ELSE /\ ingestion' = [status |-> "raised"]
               /\ ingest_pc' = "done"
               /\ UNCHANGED <<files, csv_file, attempt>>
    /\ UNCHANGED <<last_status, requests, slept, hf_file, ingestenv>>

\* one iteration of "for attempt in range(1, max_retries + 1)"
HfAttempt ==
    /\ ingest_pc = "request"
    /\ requests' = requests + 1
    /\ \E response \in Responses :
          /\ last_status' = IF response.raised THEN last_status ELSE response.status_code
          /\ IF ~response.raised /\ response.status_code = 200
             THEN /\ ingest_pc' = "save"
                  /\ UNCHANGED <<attempt, slept>>
             ELSE /\ slept' = slept \o backoff_sleeps(attempt)
                  /\ IF attempt < max_retries
                     THEN attempt' = attempt + 1 /\ UNCHANGED ingest_pc
                     ELSE ingest_pc' = "fallback" /\ UNCHANGED attempt
    /\ UNCHANGED <<files, csv_file, hf_file, ingestion, ingestenv>>

\* lines 94-109: the response is parsed and written, or that raises
HfSave ==
    /\ ingest_pc = "save"
    /\ \E saved \in BOOLEAN :
          IF saved
          THEN LET filepath == raw_data_path \o "/huggingface_churn_" \o strftime(clock) \o ".json"
               IN  /\ files' = create_file(files, filepath, clock)
                   /\ hf_file' = filepath
                   /\ ingest_pc' = "return"
          ELSE /\ ingest_pc' = "fallback"
               /\ UNCHANGED <<files, hf_file>>
    /\ UNCHANGED <<attempt, last_status, requests, slept, csv_file, ingestion, ingestenv>>

\* lines 113-124: the except branch
HfFallback ==
    /\ ingest_pc = "fallback"
    /\ \E latest_hf \in cached_choices(files) : hf_file' = latest_hf
    /\ ingest_pc' = "return"
    /\ UNCHANGED <<files, attempt, last_status, requests, slept, csv_file, ingestion,
                   ingestenv>>

\* lines 136-148
IngestReturn ==
    /\ ingest_pc = "return"
    /\ ingestion' = [status |-> "success", csv_file |-> csv_file,
                     huggingface_file |-> hf_file]
    /\ ingest_pc' = "done"
    /\ UNCHANGED <<files, attempt, last_status, requests, slept, csv_file, hf_file,
                   ingestenv>>

IngestNext ==
    \/ IngestStart
    \/ IngestCsv
    \/ HfAttempt
    \/ HfSave
    \/ HfFallback
    \/ IngestReturn

IngestSpec == IngestInit /\ [][IngestNext]_vars

\* the process that runs run_ingestion keeps running: every statement that
\* can execute does, and requests.get returns or raises within its timeout
IngestLiveSpec == IngestSpec /\ WF_vars(IngestNext)

(***************************************************************************)
(* Properties.                                                             *)
(***************************************************************************)
Range(seq) == {seq[i] : i \in 1..Len(seq)}

PipelineOrder ==
    <<"engineer", "interactions", "scale", "persist", "create_training_set">>

PipelineSteps(t) == SelectSeq(t, LAMBDA x : x \in Range(PipelineOrder))

TrainingFiles(fs) == {p \in DOMAIN fs : StartsWith(p, "data/processed/training_sets/")}

\* C1: the steps of run_transformation_pipeline that an execution has run are a
\* prefix of engineer, interactions, scale, persist, create_training_set, so
\* the training set is created only after the same run has rewritten the
\* feature table; every lineage row carries the name "churn_prediction_v1",
\* and the extract a finished run wrote holds the frame that run persisted.
C1_StepsInFixedOrder ==
    /\ LET run == PipelineSteps(trace)
       IN  Len(run) <= Len(PipelineOrder) /\ run = SubSeq(PipelineOrder, 1, Len(run))
    /\ \A id \in DOMAIN training_sets :
          /\ training_sets[id].set_name = "churn_prediction_v1"
          /\ StartsWith(id, "churn_prediction_v1_")
    /\ pc = "return" =>
          /\ returned[1] \in DOMAIN training_sets
          /\ returned[2] \in DOMAIN files
          /\ files[returned[2]].data = last_store_arg

C1_Witness ==
    /\ pc = "return"
    /\ PipelineSteps(trace) = PipelineOrder
    /\ training_sets # <<>>

\* C2 as stated: whenever data/cleaned/*.csv matches a file, the input chosen
\* is a newest file among the data/cleaned matches.
C2_FirstPatternWins ==
    (pc = "engineer" /\ glob(files, "data/cleaned/*.csv") # {}) =>
        latest_csv \in Newest(files, glob(files, "data/cleaned/*.csv"))

\* C2 as amended: the input chosen is a newest file among the matches of both
\* patterns together, and a data/processed file is chosen only when it is
\* strictly newer than every data/cleaned match.
C2_NewestOfAllMatches ==
    pc = "engineer" =>
        /\ latest_csv \in InputPaths \cap DOMAIN files
        /\ \A q \in InputPaths \cap DOMAIN files :
              files[q].mtime <= files[latest_csv].mtime
        /\ (latest_csv # CleanedCsv /\ CleanedCsv \in DOMAIN files) =>
              files[CleanedCsv].mtime < files[latest_csv].mtime

C2_Witness ==
    /\ pc = "engineer"
    /\ CleanedCsv \in DOMAIN files
    /\ latest_csv = PreparedScaledCsv

\* discovery found no CSV and raised
NoInputFailure ==
    /\ error = "FileNotFoundError"
    /\ "discover" \in Range(trace)
    /\ "engineer" \notin Range(trace)

\* C3: when discovery finds no CSV the error reaches the driver, the execution
\* ends unsuccessfully, and no step after discovery runs in that execution.
C3_NoInputHaltsPipeline ==
    NoInputFailure =>
        /\ pc = "exited"
        /\ outcome = "failure"
        /\ trace[Len(trace)] = "discover"

C3_Witness ==
    /\ NoInputFailure
    /\ caller = "main"
    /\ pc = "exited"
    /\ "processing" \in Range(trace)

\* C4: customer_features holds exactly the frame passed to the most recent
\* store_transformed_data call (and no row before the first call).
C4_FullTableReplace ==
    "customer_features" \in tables =>
        IF last_store_arg = NoDf
        THEN customer_features.rows = <<>>
        ELSE /\ customer_features.rows = last_store_arg.rows
             /\ customer_features.cols = last_store_arg.cols

\* a second run has stored one row after an earlier run had stored two
C4_Witness ==
    /\ pc = "create_training_set"
    /\ Len(customer_features.rows) = 1
    /\ \E id \in DOMAIN training_sets : training_sets[id].record_count = 2

\* C5 as stated: customer_features never holds two rows with one customer_id.
C5_CustomerIdUnique ==
    \A i, j \in 1..Len(customer_features.rows) :
        customer_features.rows[i].customer_id = customer_features.rows[j].customer_id
            => i = j

\* C6: the feature names in feature_metadata are exactly the column names,
\* other than the two timestamps, stored by any store_transformed_data so far.
C6_MetadataIsUnionOfColumns ==
    /\ DOMAIN feature_metadata = seen_columns
    /\ last_store_arg # NoDf =>
          (customer_features.cols \ TimestampColumns) \subseteq DOMAIN feature_metadata

\* a column of an earlier run, absent from the latest one, still has its row
C6_Witness ==
    /\ last_store_arg # NoDf
    /\ "Churn" \in DOMAIN feature_metadata
    /\ "Churn" \notin customer_features.cols

\* C7 as stated: feature_type is 'categorical' exactly for the names that end
\* in "_encoded".
C7_SuffixDecidesType ==
    \A c \in DOMAIN feature_metadata :
        (feature_metadata[c].feature_type = "categorical") <=> EndsWith(c, "_encoded")

\* C8: store_transformed_data leaves feature_metadata without a row for either
\* timestamp column, and with, for every other column of the batch, the row
\* this call computed, whatever was there before.
C8_LastWriteWins ==
    [][(pc = "persist" /\ pc' # "persist") =>
          /\ TimestampColumns \cap DOMAIN feature_metadata' = {}
          /\ \A c \in customer_features'.cols \ TimestampColumns :
                /\ c \in DOMAIN feature_metadata'
                /\ feature_metadata'[c] =
                      [feature_type |-> feature_type(c),
                       description |-> "Feature: " \o c,
                       transformation_applied |-> "StandardScaler/LabelEncoder",
                       created_date |-> clock]]_vars

\* a run at second 1 has overwritten the row a run at second 0 had written
C8_Witness ==
    /\ pc = "create_training_set"
    /\ "tenure" \in DOMAIN feature_metadata
    /\ feature_metadata["tenure"].created_date = 1
    /\ \E id \in DOMAIN training_sets : training_sets[id].creation_date = 0

\* C9: no step modifies or deletes a lineage row; a create_training_set that
\* returns adds exactly one row and exactly one extract, the file of the new
\* row's set_id; no other step adds a row or an extract.
C9_AppendOnly ==
    [][/\ \A id \in DOMAIN training_sets :
             id \in DOMAIN training_sets' /\ training_sets'[id] = training_sets[id]
       /\ (pc = "create_training_set" /\ pc' = "return") =>
             \E id \in DOMAIN training_sets' \ DOMAIN training_sets :
                /\ DOMAIN training_sets' = DOMAIN training_sets \cup {id}
                /\ training_path(id) \notin DOMAIN files
                /\ TrainingFiles(files') = TrainingFiles(files) \cup {training_path(id)}
       /\ pc # "create_training_set" =>
             /\ training_sets' = training_sets
             /\ TrainingFiles(files') = TrainingFiles(files)]_vars

C9_Witness ==
    /\ pc = "return"
    /\ Cardinality(DOMAIN training_sets) = 2
    /\ Cardinality(TrainingFiles(files)) = 2

\* C10 as stated: a create_training_set call made in a second in which the
\* same name already has a row does not raise.
C10_SameSecondDoesNotCrash ==
    ~(/\ trace # <<>>
      /\ trace[Len(trace)] = "create_training_set"
      /\ error = "sqlite3.IntegrityError")

\* C11: for a table of r rows, c columns and m cells without a value, r*c > 0,
\* calculate_data_quality_score returns 100*(r*c-m)/(r*c) rounded to two
\* decimals (the nearest hundredth, the even one of two equally near), which
\* is exactly 100.0 when m = 0; nothing else of the table enters the result.
C11_ScoreIsRoundedCompleteness ==
    (fn = "calculate_data_quality_score" /\ arg.rows * arg.cols > 0) =>
        LET n == arg.rows * arg.cols
            s == result.value.hundredths
            d == 10000 * (n - arg.missing) - s * n
        IN  /\ result.raised = ""
            /\ ~result.value.nan
            /\ 2 * d <= n
            /\ -2 * d <= n
            /\ (2 * d = n \/ -2 * d = n) => s % 2 = 0
            /\ arg.missing = 0 => s = 10000

\* 31 of 32 cells hold a value, in a table with a duplicated row: 96.875
\* rounds to 96.88
C11_Witness ==
    /\ fn = "calculate_data_quality_score"
    /\ arg.rows * arg.cols = 32
    /\ arg.missing = 1
    /\ arg.duplicates
    /\ result.value = Number(9688)

\* C12 as stated: a table with at least one cell without a value scores
\* strictly less than 100.0.
C12_MissingCellBelowHundred ==
    (fn = "calculate_data_quality_score" /\ arg.rows * arg.cols > 0 /\ arg.missing > 0) =>
        result.value.hundredths < 10000

\* C13 as stated: every row of training_sets carries a data_quality_score that
\* is a number between 0 and 100, whatever customer_features held when
\* create_training_set ran.
C13_ScoreIsANumber ==
    \A id \in DOMAIN training_sets :
        /\ ~training_sets[id].data_quality_score.nan
        /\ training_sets[id].data_quality_score.hundredths \in 0..10000

\* C14: a create_training_set(name, columns) that returns has inserted a
\* lineage row under set_id = name_timestamp whose record_count is the number
\* of rows of customer_features (the rows of the frame last stored) and whose
\* feature_count is the number of selected columns (the named ones, all when
\* none is named), has written those rows with those columns to
\* data/processed/training_sets/{set_id}.csv, and returns (set_id, that path).
C14_LineageRowCountsSelection ==
    [][(trace' = Append(trace, "create_training_set") /\ result'.raised = "") =>
          LET set_id == result'.value[1]
              path == result'.value[2]
              selected == IF arg'.feature_columns = {}
                          THEN customer_features.cols ELSE arg'.feature_columns
          IN  /\ set_id = arg'.set_name \o "_20260101_00000" \o ToString(clock)
              /\ path = "data/processed/training_sets/" \o set_id \o ".csv"
              /\ set_id \notin DOMAIN training_sets
              /\ set_id \in DOMAIN training_sets'
              /\ training_sets'[set_id].set_name = arg'.set_name
              /\ training_sets'[set_id].record_count = Len(customer_features.rows)
              /\ last_store_arg # NoDf =>
                    training_sets'[set_id].record_count = Len(last_store_arg.rows)
              /\ training_sets'[set_id].feature_count = Cardinality(selected)
              /\ path \in DOMAIN files'
              /\ files'[path].data.cols = selected
              /\ Len(files'[path].data.rows) = Len(customer_features.rows)
              /\ \A i \in 1..Len(customer_features.rows) :
                    \A c \in selected \cap {"customer_id", "created_timestamp",
                                             "updated_timestamp"} :
                       files'[path].data.rows[i][c] = customer_features.rows[i][c]]_vars

\* two named columns of a two-row table
C14_Witness ==
    /\ fn = "create_training_set"
    /\ result.raised = ""
    /\ arg.feature_columns = {"customer_id", "tenure"}
    /\ training_sets[result.value[1]].record_count = 2
    /\ training_sets[result.value[1]].feature_count = 2
    /\ files[result.value[2]].data.cols = {"customer_id", "tenure"}

\* C15: store_transformed_data stores, for every row of the batch in order,
\* the row under customer_id (no customerID column remains) with
\* updated_timestamp the time of the call and created_timestamp the value the
\* row carried when the batch has a created_timestamp column, the time of the
\* call otherwise.
C15_TimestampsStamped ==
    [][trace' = Append(trace, "store_transformed_data") =>
          /\ "customer_id" \in customer_features'.cols
          /\ "customerID" \notin customer_features'.cols
          /\ TimestampColumns \subseteq customer_features'.cols
          /\ Len(customer_features'.rows) = Len(arg'.rows)
          /\ \A i \in 1..Len(arg'.rows) :
                /\ customer_features'.rows[i].customer_id = arg'.rows[i].customerID
                /\ customer_features'.rows[i].updated_timestamp = clock
                /\ customer_features'.rows[i].created_timestamp =
                      IF "created_timestamp" \in arg'.cols
                      THEN arg'.rows[i].created_timestamp ELSE clock]_vars

\* a row stored at second 1 that kept the created_timestamp it carried
C15_Witness ==
    /\ fn = "store_transformed_data"
    /\ "created_timestamp" \in arg.cols
    /\ Len(customer_features.rows) = 1
    /\ customer_features.rows[1].updated_timestamp = 1
    /\ customer_features.rows[1].created_timestamp = arg.rows[1].created_timestamp
    /\ customer_features.rows[1].created_timestamp # 1

\* C16 as stated: when the input has tenure and a detected service column,
\* total_services is, for every row, the number of detected service columns
\* whose value is truthy, and service_density is total_services / (tenure + 1).
C16_TotalServicesCountsTruthy ==
    (/\ fn = "create_aggregated_features"
     /\ result.raised = ""
     /\ "tenure" \in arg.cols
     /\ service_columns(arg.cols) # {}) =>
        \A i \in 1..Len(arg.rows) :
            LET truthy == {c \in service_columns(arg.cols) : arg.rows[i][c] # 0}
            IN  /\ result.value.rows[i]["total_services"] = Cardinality(truthy)
                /\ result.value.rows[i]["service_density"] =
                      [num |-> Cardinality(truthy), den |-> arg.rows[i]["tenure"] + 1]

\* C17 as stated: create_aggregated_features and create_feature_interactions
\* complete without raising whichever source columns the input lacks.
C17_MissingColumnNeverRaises ==
    ~(/\ error = "KeyError"
      /\ trace # <<>>
      /\ trace[Len(trace)] \in {"engineer", "interactions"})

\* C18: create_aggregated_features gives every row a customer_value_segment in
\* {0, 1, 2, 3}; when the batch holds two different TotalCharges values it is
\* the index of the row's value among four bins of equal width from the
\* batch's minimum to its maximum (each bin closed on the right, the minimum
\* in bin 0); a second run on the same input returns the same table.
C18_SegmentIsEqualWidthBin ==
    [][(trace' = Append(trace, "create_aggregated_features") /\ result'.raised = "") =>
          /\ \A i \in 1..Len(arg.rows) :
                LET segment == result'.value.rows[i]["customer_value_segment"]
                    x == arg.rows[i]["TotalCharges"]
                    lo == column_min(Column(arg, "TotalCharges"))
                    hi == column_max(Column(arg, "TotalCharges"))
                IN  /\ segment \in {0, 1, 2, 3}
                    /\ lo < hi =>
                          /\ 4 * (x - lo) <= (segment + 1) * (hi - lo)
                          /\ segment > 0 => segment * (hi - lo) < 4 * (x - lo)
          /\ fn = "create_aggregated_features" => result' = result]_vars

\* a second run over the batch 300, 0, 400: bins 2, 0 and 3, the first value
\* on the edge that closes its bin
C18_Witness ==
    /\ trace = <<"create_aggregated_features", "create_aggregated_features">>
    /\ result.raised = ""
    /\ Len(arg.rows) = 3
    /\ arg.rows[1]["TotalCharges"] = 300
    /\ arg.rows[2]["TotalCharges"] = 0
    /\ arg.rows[3]["TotalCharges"] = 400
    /\ result.value.rows[1]["customer_value_segment"] = 2
    /\ result.value.rows[2]["customer_value_segment"] = 0
    /\ result.value.rows[3]["customer_value_segment"] = 3

\* C19: apply_feature_scaling splits the eligible columns (numeric, name not
\* ending in _encoded, not Churn, tenure_group or customer_value_segment)
\* into those of tenure, MonthlyCharges, TotalCharges, which come out with
\* mean 0 and variance 1 (all 0 for a constant column), and all the others,
\* which come out min-max scaled: between 0 and 1, the minimum at 0, the
\* maximum of a non-constant column at 1; every other column keeps its cells.
C19_ScalingPartition ==
    (fn = "apply_feature_scaling" /\ result.raised = "") =>
        LET eligible == {c \in arg.cols :
                            /\ arg.dtypes[c] # "object"
                            /\ ~EndsWith(c, "_encoded")
                            /\ c \notin {"Churn", "tenure_group", "customer_value_segment"}}
            standard == eligible \cap {"tenure", "MonthlyCharges", "TotalCharges"}
            n == Len(arg.rows)
            out == result.value.rows
        IN  /\ result.value.cols = arg.cols
            /\ Len(out) = n
            /\ \A c \in arg.cols \ eligible : \A i \in 1..n :
                  out[i][c] = [scaler |-> "none", num |-> arg.rows[i][c], den |-> 1]
            /\ \A c \in standard :
                  /\ \A i \in 1..n : out[i][c].scaler = "standard" /\ out[i][c].den = out[1][c].den
                  /\ SumTo([i \in 1..n |-> out[i][c].num], n) = 0
                  /\ \/ \A i \in 1..n : out[i][c].num = 0
                     \/ SumTo([i \in 1..n |-> out[i][c].num * out[i][c].num], n)
                           = n * out[1][c].den
                  /\ \A i, j \in 1..n :
                        (arg.rows[i][c] <= arg.rows[j][c]) <=> (out[i][c].num <= out[j][c].num)
            /\ \A c \in eligible \ standard :
                  /\ \A i \in 1..n :
                        /\ out[i][c].scaler = "minmax"
                        /\ out[i][c].den = out[1][c].den
                        /\ 0 <= out[i][c].num
                        /\ out[i][c].num <= out[i][c].den
                  /\ n > 0 => \E i \in 1..n : out[i][c].num = 0
                  /\ \/ \A i \in 1..n : out[i][c].num = 0
                     \/ \E i \in 1..n : out[i][c].num = out[i][c].den
                  /\ \A i, j \in 1..n :
                        (arg.rows[i][c] - arg.rows[j][c]) * out[1][c].den
                            = (out[i][c].num - out[j][c].num)
                                 * (column_max(Column(arg, c)) - column_min(Column(arg, c)))
                          \/ column_max(Column(arg, c)) = column_min(Column(arg, c))

\* three different customers scaled: tenure standard-scaled, PaymentMethod
\* min-max scaled to 0, 1/2 and 1, InternetService_encoded and Churn kept
C19_Witness ==
    /\ fn = "apply_feature_scaling"
    /\ result.raised = ""
    /\ Len(arg.rows) = 3
    /\ "InternetService_encoded" \in arg.cols
    /\ result.value.rows[1]["tenure"].scaler = "standard"
    /\ result.value.rows[1]["tenure"].num # 0
    /\ result.value.rows[1]["PaymentMethod"] = [scaler |-> "minmax", num |-> 2, den |-> 2]
    /\ result.value.rows[2]["PaymentMethod"] = [scaler |-> "minmax", num |-> 0, den |-> 2]
    /\ result.value.rows[3]["PaymentMethod"] = [scaler |-> "minmax", num |-> 1, den |-> 2]
    /\ result.value.rows[2]["InternetService_encoded"].scaler = "none"
    /\ result.value.rows[2]["InternetService_encoded"].num = 2

CsvIn(fs, dir) ==
    {p \in DOMAIN fs : /\ StartsWith(p, dir \o "/")
                       /\ EndsWith(p, ".csv")
                       /\ ~Contains(SubSeq(p, Len(dir) + 2, Len(p)), "/")}

\* C21: get_latest_training_data returns a file of data/processed/training_sets
\* whenever that directory holds a CSV (so whenever an extract written by the
\* transformation stage is there), returns a file of data/processed only when
\* training_sets holds no CSV, returns a file of the raw directory only when
\* neither search found one, and raises FileNotFoundError when all three
\* directories are empty.
C21_TrainingSetsThenProcessedThenRaw ==
    fn = "get_latest_training_data" =>
        LET training == CsvIn(arg, "data/processed/training_sets")
            processed == CsvIn(arg, "data/processed")
            raw == CsvIn(arg, features_path)
            value == result.value
            returns == result.raised = ""
        IN  /\ training # {} => returns /\ value \in training
            /\ training_path(make_set_id(TrainingSetName, 0)) \in DOMAIN arg =>
                   returns /\ value \in TrainingFiles(arg)
            /\ returns /\ value \in processed => training = {}
            /\ returns /\ value \in raw =>
                   /\ training = {}
                   /\ \A p \in processed : ~StartsWith(p, "data/processed/cleaned_data")
            /\ training \cup processed \cup raw = {} =>
                   result.raised = "FileNotFoundError"
            /\ returns => value \in training \cup processed \cup raw

\* the prepared CSV is newer than the two extracts beside it and an extract
\* is returned
C21_Witness ==
    /\ fn = "get_latest_training_data"
    /\ {training_path(make_set_id(TrainingSetName, 0)),
        training_path(make_set_id(TrainingSetName, 1)), PreparedCsv} \subseteq DOMAIN arg
    /\ arg[PreparedCsv].ctime = 1
    /\ arg[training_path(make_set_id(TrainingSetName, 0))].ctime = 0
    /\ arg[training_path(make_set_id(TrainingSetName, 1))].ctime = 0
    /\ result = Returned(training_path(make_set_id(TrainingSetName, 1)))

\* C22: in a DAG run a stage whose subprocess exits non-zero or runs past 300
\* seconds does not succeed; after its first failure it waits for a retry and
\* after its second it is failed, so no stage is attempted more than twice; a
\* retry starts no sooner than 300 seconds after the failed attempt ended; a
\* run in which a stage failed twice ends failed.
C22_FailedStageRetriedOnce ==
    /\ [](\A t \in DagTasks :
            /\ try_number[t] <= 2
            /\ t \in ScriptTasks /\ task_state[t] \in {"success", "up_for_retry", "failed"} =>
                  (task_state[t] # "success" <=>
                      completed[t].returncode # 0 \/ completed[t].elapsed > 300)
            /\ task_state[t] = "up_for_retry" => try_number[t] = 1
            /\ task_state[t] = "failed" => try_number[t] = 2 /\ dag_run # "success"
            /\ task_state[t] = "failed" /\ dag_run # "running" => dag_run = "failed")
    /\ [][\A t \in DagTasks :
            task_state[t] = "up_for_retry" /\ task_state'[t] # "up_for_retry" =>
                /\ task_state'[t] = "running"
                /\ try_number'[t] = 2
                /\ dag_time' >= end_date[t] + 300]_vars

\* data_transformation timed out, was retried and exited 1: the run has failed
C22_Witness ==
    /\ dag_run = "failed"
    /\ task_state["data_transformation"] = "failed"
    /\ try_number["data_transformation"] = 2
    /\ completed["data_transformation"] = [returncode |-> 1, elapsed |-> 1]
    /\ end_date["data_transformation"] >= 300 + 300 + 1
    /\ task_state["pipeline_success"] = "upstream_failed"

\* C23: in every DAG run a stage has started only if the stage before it in
\* data_ingestion, raw_data_storage, data_validation, data_preparation,
\* data_transformation, feature_store, data_versioning, model_building,
\* pipeline_success has succeeded, at most one stage is executing or waiting
\* for its retry, and pipeline_success runs only after all eight stages
\* succeeded.
C23_StagesRunInChainOrder ==
    LET started(t) == task_state[t] \in {"running", "up_for_retry", "success", "failed"}
        order == <<"data_ingestion", "raw_data_storage", "data_validation",
                   "data_preparation", "data_transformation", "feature_store",
                   "data_versioning", "model_building", "pipeline_success">>
    IN  /\ \A i \in 2..Len(order) :
              started(order[i]) => task_state[order[i - 1]] = "success"
        /\ Cardinality({t \in DagTasks : task_state[t] \in {"running", "up_for_retry"}}) <= 1
        /\ started("pipeline_success") =>
              \A t \in DagTasks \ {"pipeline_success"} : task_state[t] = "success"
        /\ \A t \in DagTasks : try_number[t] > 0 => started(t)

\* pipeline_success is running after model_building needed its retry
C23_Witness ==
    /\ task_state["pipeline_success"] = "running"
    /\ try_number["model_building"] = 2
    /\ \A t \in ScriptTasks : task_state[t] = "success"

\* C24: once a DataTransformationStorage has been constructed, whatever
\* constructions and transformation runs follow, the tables customer_features,
\* feature_metadata and training_sets exist and the indexes on tenure, on
\* Churn and on (MonthlyCharges, TotalCharges) exist on customer_features.
C24_TablesAndIndexesAlwaysExist ==
    tables # {} =>
        /\ tables = {"customer_features", "feature_metadata", "training_sets"}
        /\ indexes = {"idx_customer_features_tenure", "idx_customer_features_churn",
                      "idx_customer_features_charges"}

\* C25: ingest_huggingface_data sends at most 3 requests and none after a
\* response with status 200; it sleeps 2 seconds after the first failed
\* attempt and 4 after the second and never after its last attempt; when no
\* response had status 200 it returns the most recently created cached
\* huggingface_churn_*.json file, or None when there is none, and
\* run_ingestion returns status success with the CSV it downloaded; every
\* call of run_ingestion ends.
C25_BoundedRetryThenCachedFile ==
    /\ [](/\ requests <= 3
          /\ \A i \in 1..Len(slept) : slept[i] = 2 ^ i
          /\ Len(slept) <= requests
          /\ Len(slept) = requests /\ requests > 0 => ingest_pc = "request"
          /\ last_status = 200 => ingest_pc # "request"
          /\ ingest_pc = "done" /\ csv_file # NoPath /\ last_status # 200 =>
                LET cached == {p \in DOMAIN files :
                                  /\ StartsWith(p, "data/raw/huggingface_churn_")
                                  /\ EndsWith(p, ".json")}
                IN  /\ requests = 3
                    /\ ingestion.status = "success"
                    /\ ingestion.csv_file = csv_file
                    /\ csv_file \in DOMAIN files
                    /\ IF cached = {}
                       THEN ingestion.huggingface_file = NoPath
                       ELSE /\ ingestion.huggingface_file \in cached
                            /\ \A p \in cached :
                                  files[p].ctime <= files[ingestion.huggingface_file].ctime)
    /\ <>(ingest_pc = "done")

\* three requests failed, the second without a response; the run slept 2 and
\* 4 seconds and returned the newer of two cached files
C25_Witness ==
    /\ ingest_pc = "done"
    /\ requests = 3
    /\ last_status = 503
    /\ slept = <<2, 4>>
    /\ DOMAIN files = CachedPaths \cup {csv_file}
    /\ files["data/raw/huggingface_churn_20250824_000000.json"].ctime = 1
    /\ files["data/raw/huggingface_churn_20250825_000000.json"].ctime = 0
    /\ ingestion = [status |-> "success", csv_file |-> csv_file,
                    huggingface_file |-> "data/raw/huggingface_churn_20250824_000000.json"]

\* C26: the call of run_transformation_pipeline_auto that raises
\* FileNotFoundError because no CSV is discovered changes no row of
\* customer_features, feature_metadata or training_sets and no file under
\* data/processed/training_sets/.
C26_NoInputLeavesStoreUnchanged ==
    [][pc = "discover" /\ error' = "FileNotFoundError" /\ latest_csv' = NoPath =>
          /\ customer_features'.rows = customer_features.rows
          /\ feature_metadata' = feature_metadata
          /\ training_sets' = training_sets
          /\ TrainingFiles(files') = TrainingFiles(files)
          /\ \A p \in TrainingFiles(files) : files'[p] = files[p]]_vars

\* the script found no CSV in a store that an earlier run had filled
C26_Witness ==
    /\ NoInputFailure
    /\ caller = "script"
    /\ pc = "exited"
    /\ trace = <<"construct", "discover">>
    /\ Len(customer_features.rows) = 2
    /\ DOMAIN training_sets # {}
    /\ TrainingFiles(files) # {}

\* C27: when main_pipeline has just run the preparation stage, so that
\* data/processed holds cleaned_data.csv and the cleaned_data_scaled.csv written
\* after it, and data/cleaned holds no CSV, the input the transformation stage
\* discovers is the unscaled data/processed/cleaned_data.csv.
C27_DiscoverySelectsUnscaledFile ==
    (/\ caller = "main"
     /\ pc = "engineer"
     /\ "processing" \in Range(trace)
     /\ {PreparedCsv, PreparedScaledCsv} \subseteq DOMAIN files
     /\ glob(files, "data/cleaned/*.csv") = {}) =>
        latest_csv = PreparedCsv

\* C28: after any sequence of create_training_set calls, those that raise
\* included, every set_id of training_sets has its file
\* data/processed/training_sets/{set_id}.csv, and the file holds as many rows
\* as the lineage row's record_count.
C28_EveryLineageRowHasItsFile ==
    \A set_id \in DOMAIN training_sets :
        /\ training_path(set_id) \in DOMAIN files
        /\ Len(files[training_path(set_id)].data.rows) = training_sets[set_id].record_count

\* C29: when create_training_set raises after store_transformed_data
\* succeeded, the execution ends in failure, customer_features and
\* feature_metadata keep what the run stored, and training_sets has gained no
\* row.
C29_LateFailureLeavesNoLineageRow ==
    [][pc = "create_training_set" /\ error' # "" /\ pc' = "exited" =>
          /\ outcome' = "failure"
          /\ customer_features' = customer_features
          /\ customer_features'.rows = last_store_arg.rows
          /\ feature_metadata' = feature_metadata
          /\ training_sets' = training_sets]_vars

\* C30: in main_pipeline.main a FileNotFoundError raised by model training
\* never ends the run: run_model_training returns False, the results are
\* printed and main returns True; an exception raised by ingestion, by
\* validation or preparation, by the transformation or by the feature store
\* ends the run at that step with main returning False, and neither a later
\* step nor model training runs.
C30_TrainingErrorSwallowedEarlierErrorsFatal ==
    caller = "main" =>
        LET last == IF trace = <<>> THEN "" ELSE trace[Len(trace)]
            before == {"ingestion", "processing", "construct", "discover", "engineer",
                       "interactions", "scale", "persist", "create_training_set",
                       "feature_store"}
        IN  /\ error = "FileNotFoundError" => last # "training"
            /\ "training" \in Range(trace) /\ error = "" =>
                  /\ pc \in {"results", "exited"}
                  /\ pc = "results" => outcome = "running"
                  /\ pc = "exited" => outcome = "success" /\ last = "results"
            /\ error # "" /\ last \in before =>
                  /\ pc = "exited"
                  /\ outcome = "failure"
                  /\ {"final_versioning", "training", "results"} \cap Range(trace) = {}
                  /\ \A i \in 1..(Len(trace) - 1) : trace[i] # last
            /\ outcome = "success" => "results" \in Range(trace) /\ error = ""

\* main has returned True although model training found no file
C30_Witness ==
    /\ caller = "main"
    /\ pc = "exited"
    /\ outcome = "success"
    /\ "training" \in Range(trace)
    /\ ~model_success
    /\ error = ""

====
